---- MODULE Spec2Model ----
(***************************************************************************)
(* envconf: initialization of a struct from environment variables.         *)
(*                                                                         *)
(* envconf_derive/src/lib.rs is the derive macro: it turns the fields of   *)
(* a struct, each carrying #[conf(env = .., default = ..)], into the body  *)
(* of Setting::init.  envconf/src/lib.rs holds the Error type, its Display *)
(* and the test struct.                                                    *)
(*                                                                         *)
(* Text is a sequence of characters (one-character strings).  Names that   *)
(* the program handles as &'static str without ever looking inside them    *)
(* (environment keys, field identifiers, the pieces of a format string)    *)
(* are single symbols.                                                     *)
(***************************************************************************)
EXTENDS Integers, Sequences, FiniteSets, TLC

VARIABLES decl, build, catalog, env, result, trace, changed, shown

vars == <<decl, build, catalog, env, result, trace, changed, shown>>

(***************************************************************************)
(* Bounds                                                                  *)
(***************************************************************************)
\* longest text an environment variable is set to
MaxLen == 1
\* most fields of a derived struct
MaxFields == 2

(***************************************************************************)
(* Text and literals                                                       *)
(***************************************************************************)
Digits == <<"0", "1", "2", "3", "4", "5", "6", "7", "8", "9">>

IsDigit(c) == \E i \in 1..10 : Digits[i] = c

DigitVal(c) == (CHOOSE i \in 1..10 : Digits[i] = c) - 1

RECURSIVE ToDecimal(_)
\* <integer>::to_string(): decimal digits, no sign, no leading zero
ToDecimal(n) ==
    IF n < 10 THEN <<Digits[n + 1]>>
    ELSE Append(ToDecimal(n \div 10), Digits[(n % 10) + 1])

RECURSIVE IntLitValue(_, _)
\* value of an integer literal token; `_` separators carry no value
IntLitValue(tok, acc) ==
    IF tok = <<>> THEN acc
    ELSE IF Head(tok) = "_" THEN IntLitValue(Tail(tok), acc)
    ELSE IntLitValue(Tail(tok), acc * 10 + DigitVal(Head(tok)))

\* syn::Lit, the kinds a conf attribute of the repository uses
StrLit(t) == [kind |-> "Str", token |-> <<"\"">> \o t \o <<"\"">>, text |-> t]
IntLit(tok) == [kind |-> "Int", token |-> tok, text |-> <<>>]

\* `#d.to_string()` in the generated code: the literal's value rendered by
\* Display (a string literal gives its content, an integer its decimal
\* digits)
LitToString(d) ==
    CASE d.kind = "Str" -> d.text
      [] d.kind = "Int" -> ToDecimal(IntLitValue(d.token, 0))

\* `stringify!(#d)`: the literal's source token, quotes included
Stringify(d) == d.token

(***************************************************************************)
(* str::parse::<T>() for the field types in use                            *)
(***************************************************************************)
Types == {"usize", "String"}

Ok(v) == [ok |-> TRUE, val |-> v]
Err(e) == [ok |-> FALSE, err |-> e]

RECURSIVE DigitsValue(_, _)
DigitsValue(t, acc) ==
    IF t = <<>> THEN acc
    ELSE DigitsValue(Tail(t), acc * 10 + DigitVal(Head(t)))

\* usize::from_str: an optional `+`, then at least one digit and nothing else
\* (the texts in reach stay far below usize::MAX)
ParseUsize(t) ==
    LET body == IF t # <<>> /\ Head(t) = "+" THEN Tail(t) ELSE t
    IN  IF body # <<>> /\ \A i \in 1..Len(body) : IsDigit(body[i])
        THEN Ok(DigitsValue(body, 0))
        ELSE Err("ParseIntError")

\* String::from_str is infallible and keeps the text
Parse(ty, t) ==
    IF ty = "String" THEN Ok(t) ELSE ParseUsize(t)

(***************************************************************************)
(* The derive macro (envconf_derive)                                       *)
(***************************************************************************)
NoLit == [kind |-> "None", token |-> <<>>, text |-> <<>>]
None == [some |-> FALSE, v |-> NoLit]
Some(l) == [some |-> TRUE, v |-> l]

\* struct FieldArgs { env, default }
FieldArgs(e, d) == [panic |-> FALSE, env |-> e, default |-> d]
Panic == [panic |-> TRUE, env |-> None, default |-> None]

\* one argument inside #[conf(...)]: `name = lit`, or anything else
NameValue(n, l) == [kind |-> "NameValue", name |-> n, lit |-> l]
OtherMeta == [kind |-> "Other", name |-> "", lit |-> NoLit]

\* an attribute on a field: #[conf(args)] is a Meta::List, #[conf] a
\* Meta::Path
MetaList(args) == [meta |-> "List", nested |-> args]
MetaPath == [meta |-> "Path", nested |-> <<>>]

RECURSIVE ParseNested(_, _)
\* the loop of parse_attribute_args over list.nested: a later argument of
\* the same name overwrites an earlier one, an argument that is not
\* `name = lit` is skipped, any other name panics
ParseNested(nested, args) ==
    IF nested = <<>> \/ args.panic THEN args
    ELSE LET arg == Head(nested)
         IN  IF arg.kind = "NameValue"
             THEN IF arg.name = "env"
                  THEN ParseNested(Tail(nested), [args EXCEPT !.env = Some(arg.lit)])
                  ELSE IF arg.name = "default"
                  THEN ParseNested(Tail(nested), [args EXCEPT !.default = Some(arg.lit)])
                  ELSE Panic
             ELSE ParseNested(Tail(nested), args)

parse_attribute_args(attr) ==
    IF attr.meta = "List"
    THEN ParseNested(attr.nested, FieldArgs(None, None))
    ELSE Panic

\* impl From<&Field> for FieldInit: only the first attribute is read
FieldInitFrom(f) ==
    LET args == IF f.attrs # <<>> THEN parse_attribute_args(Head(f.attrs)) ELSE Panic
    IN  [panic |-> args.panic, name |-> f.ident, ty |-> f.ty,
         env |-> args.env, default |-> args.default]

\* the three initializers the macro can emit for a field; ty is the struct
\* field's declared type, which fixes the parse::<T>() of the emitted code
parse_env_and_default(fi, v, d) ==
    [strategy |-> "env_and_default", name |-> fi.name, ty |-> fi.ty, v |-> v, d |-> d]
parse_env_only(fi, v) ==
    [strategy |-> "env_only", name |-> fi.name, ty |-> fi.ty, v |-> v, d |-> NoLit]
parse_default_only(fi, d) ==
    [strategy |-> "default_only", name |-> fi.name, ty |-> fi.ty, v |-> NoLit, d |-> d]
NoTokens == [strategy |-> "panic", name |-> "", ty |-> "", v |-> NoLit, d |-> NoLit]

\* as to_tokens, but a field with neither argument is given an empty
\* default instead of the panic
to_tokens_lenient(fi) ==
    IF fi.env.some
    THEN IF fi.default.some
         THEN parse_env_and_default(fi, fi.env.v, fi.default.v)
         ELSE parse_env_only(fi, fi.env.v)
    ELSE IF fi.default.some
         THEN parse_default_only(fi, fi.default.v)
         ELSE parse_default_only(fi, StrLit(<<>>))

\* impl ToTokens for FieldInit; NoTokens stands for the panic
\* "Either env or default attribute params are required"
to_tokens(fi) ==
    IF fi.env.some
    THEN IF fi.default.some
         THEN parse_env_and_default(fi, fi.env.v, fi.default.v)
         ELSE parse_env_only(fi, fi.env.v)
    ELSE IF fi.default.some
         THEN parse_default_only(fi, fi.default.v)
         ELSE NoTokens

\* impl_setting_struct: every field is converted, then every FieldInit is
\* expanded inside quote!; a panic in either aborts the expansion
impl_setting_struct(fields) ==
    LET init_fields == [i \in 1..Len(fields) |-> FieldInitFrom(fields[i])]
        gen == [i \in 1..Len(fields) |-> to_tokens(init_fields[i])]
    IN  IF \E i \in 1..Len(fields) : init_fields[i].panic \/ gen[i] = NoTokens
        THEN [panic |-> TRUE, init |-> <<>>]
        ELSE [panic |-> FALSE, init |-> gen]

setting_derive(d) == impl_setting_struct(d)

(***************************************************************************)
(* Error and its Display (envconf)                                         *)
(***************************************************************************)
MissingEnv(name) == [kind |-> "MissingEnv", name |-> name, value |-> <<>>]
EnvParse(name, value) == [kind |-> "EnvParse", name |-> name, value |-> value]
DefaultParse(name, value) == [kind |-> "DefaultParse", name |-> name, value |-> value]
NoError == [kind |-> "None", name |-> "", value |-> <<>>]

\* impl Display for Error: each arm is a writeln!, which ends the line
fmt(e) ==
    CASE e.kind = "MissingEnv" ->
            <<"Environment variable (", e.name, ") is missing", "\n">>
      [] e.kind = "EnvParse" ->
            <<"Failed to parse environment variable (", e.name, ") value (">>
                \o e.value \o <<")", "\n">>
      [] e.kind = "DefaultParse" ->
            <<"Failed to parse field (", e.name, ") default value (">>
                \o e.value \o <<")", "\n">>

(***************************************************************************)
(* The process environment                                                 *)
(***************************************************************************)
Keys == {"ENVCONF_NUMBER", "ENVCONF_ONLYENV"}

EnvChars == {"5", "q"}

RECURSIVE TextsUpTo(_)
TextsUpTo(n) ==
    IF n = 0 THEN {<<>>}
    ELSE LET shorter == TextsUpTo(n - 1)
         IN  shorter \cup {Append(t, c) : t \in shorter, c \in EnvChars}

Unset == [st |-> "unset", text |-> <<>>]
Unicode(t) == [st |-> "unicode", text |-> t]
\* a value that is not valid Unicode (an OsString std::env::var cannot
\* return as a String)
NotUnicode == [st |-> "bytes", text |-> <<>>]

SetValues == {Unicode(t) : t \in TextsUpTo(MaxLen)} \cup {NotUnicode}
EnvValues == SetValues \cup {Unset}

\* std::env::var(key): Ok(text) for a key set to valid Unicode, otherwise
\* Err (VarError::NotPresent or VarError::NotUnicode)
EnvVar(e, key) ==
    IF e[key].st = "unicode" THEN Ok(e[key].text) ELSE Err("VarError")

(***************************************************************************)
(* Setting::init as generated: one initializer per field, in field order   *)
(***************************************************************************)
\* the &str a key literal denotes (a key is one symbol)
KeyOf(v) == v.text[1]

\* a field's value in the built struct
UsizeVal(n) == [ty |-> "usize", n |-> n, s |-> <<>>]
StringVal(t) == [ty |-> "String", n |-> 0, s |-> t]
NoVal == [ty |-> "", n |-> 0, s |-> <<>>]
Value(ty, parsed) == IF ty = "String" THEN StringVal(parsed) ELSE UsizeVal(parsed)

\* outcome of one initializer: the value or the error `?`/return leaves
\* with, the key it looked up ("" when it looked none up) and the arm taken
Outcome(ok, val, err, key, arm) ==
    [ok |-> ok, val |-> val, err |-> err, key |-> key, arm |-> arm]

\* r.parse().map_err(|_| Error::EnvParse(#v, r))?
FromEnvText(g, r) ==
    LET p == Parse(g.ty, r)
    IN  IF p.ok
        THEN Outcome(TRUE, Value(g.ty, p.val), NoError, KeyOf(g.v), "env")
        ELSE Outcome(FALSE, NoVal, EnvParse(KeyOf(g.v), r), KeyOf(g.v), "env")

\* as FromDefault, but what is parsed is the literal's source token
FromDefaultToken(g, key) ==
    LET p == Parse(g.ty, Stringify(g.d))
    IN  IF p.ok
        THEN Outcome(TRUE, Value(g.ty, p.val), NoError, key, "default")
        ELSE Outcome(FALSE, NoVal, DefaultParse(g.name, Stringify(g.d)), key, "default")

\* #d.to_string().parse().map_err(|_| Error::DefaultParse(stringify!(#name), stringify!(#d)))?
FromDefault(g, key) ==
    LET p == Parse(g.ty, LitToString(g.d))
    IN  IF p.ok
        THEN Outcome(TRUE, Value(g.ty, p.val), NoError, key, "default")
        ELSE Outcome(FALSE, NoVal, DefaultParse(g.name, Stringify(g.d)), key, "default")

\* as env_and_default, but text that does not parse falls back to the
\* default
env_and_default_fallback(g, e) ==
    LET r == EnvVar(e, KeyOf(g.v))
    IN  IF r.ok /\ Parse(g.ty, r.val).ok
        THEN FromEnvText(g, r.val)
        ELSE FromDefault(g, KeyOf(g.v))

\* as env_and_default, but the default is parsed first, whether or not the
\* variable is set
env_and_default_eager(g, e) ==
    LET r == EnvVar(e, KeyOf(g.v))
        dflt == FromDefault(g, KeyOf(g.v))
    IN  IF ~dflt.ok THEN dflt
        ELSE IF r.ok THEN FromEnvText(g, r.val) ELSE dflt

\* the code emitted by parse_env_and_default
env_and_default(g, e) ==
    LET r == EnvVar(e, KeyOf(g.v))
    IN  IF r.ok THEN FromEnvText(g, r.val) ELSE FromDefault(g, KeyOf(g.v))

\* as env_only, but the error names the field instead of the variable
env_only_field_name(g, e) ==
    LET r == EnvVar(e, KeyOf(g.v))
    IN  IF r.ok THEN FromEnvText(g, r.val)
        ELSE Outcome(FALSE, NoVal, MissingEnv(g.name), KeyOf(g.v), "missing")

\* the code emitted by parse_env_only
env_only(g, e) ==
    LET r == EnvVar(e, KeyOf(g.v))
    IN  IF r.ok THEN FromEnvText(g, r.val)
        ELSE Outcome(FALSE, NoVal, MissingEnv(KeyOf(g.v)), KeyOf(g.v), "missing")

\* the code emitted by parse_default_only
default_only(g, e) == FromDefault(g, "")

InitField(g, e) ==
    CASE g.strategy = "env_and_default" -> env_and_default(g, e)
      [] g.strategy = "env_only" -> env_only(g, e)
      [] g.strategy = "default_only" -> default_only(g, e)

NoResult == [st |-> "none", rec |-> <<>>, err |-> NoError]
OkResult(rec) == [st |-> "ok", rec |-> rec, err |-> NoError]
ErrResult(e) == [st |-> "err", rec |-> <<>>, err |-> e]

Step(g, o) == [name |-> g.name, key |-> o.key, arm |-> o.arm]

RECURSIVE InitFrom(_, _, _, _, _)
\* Ok(Self { f1: .., f2: .., .. }): the initializers run in the order
\* written; the first `?` or `return Err` leaves init
InitFrom(cat, i, e, rec, tr) ==
    IF i > Len(cat) THEN [result |-> OkResult(rec), trace |-> tr]
    ELSE LET o == InitField(cat[i], e)
         IN  IF o.ok
             THEN InitFrom(cat, i + 1, e, Append(rec, o.val), Append(tr, Step(cat[i], o)))
             ELSE [result |-> ErrResult(o.err), trace |-> Append(tr, Step(cat[i], o))]

RECURSIVE InitFromAll(_, _, _, _, _)
\* as InitFrom, but a failure does not stop the later initializers and the
\* last error wins
InitFromAll(cat, i, e, rec, tr) ==
    IF i > Len(cat) THEN [result |-> OkResult(rec), trace |-> tr]
    ELSE LET o == InitField(cat[i], e)
             rest == InitFromAll(cat, i + 1, e, Append(rec, o.val),
                                 Append(tr, Step(cat[i], o)))
         IN  IF o.ok \/ rest.result.st = "err" THEN rest
             ELSE [result |-> ErrResult(o.err), trace |-> rest.trace]

init_all(cat, e) == InitFromAll(cat, 1, e, <<>>, <<>>)

\* the body of the generated Setting::init
init(cat, e) == InitFrom(cat, 1, e, <<>>, <<>>)

(***************************************************************************)
(* Struct declarations                                                     *)
(***************************************************************************)
KeyLit(k) == StrLit(<<k>>)
Field(ident, ty, attrs) == [ident |-> ident, ty |-> ty, attrs |-> attrs]
Conf(args) == <<MetaList(args)>>

L3000 == <<"3", "0", "0", "0">>

\* fields in the shapes of tests::TestSettings and of the crate
\* documentation's DBSettings (two environment keys between them), and
\* fields the macro rejects
FieldUniverse ==
    { Field("number", "usize",
            Conf(<<NameValue("env", KeyLit("ENVCONF_NUMBER")),
                   NameValue("default", StrLit(L3000))>>)),
      Field("test", "String",
            Conf(<<NameValue("env", KeyLit("ENVCONF_NUMBER")),
                   NameValue("default", IntLit(L3000))>>)),
      Field("onlyenv", "usize",
            Conf(<<NameValue("env", KeyLit("ENVCONF_ONLYENV"))>>)),
      Field("default", "usize",
            Conf(<<NameValue("default", StrLit(<<"q">>)),
                   NameValue("default", IntLit(<<"3", "_", "0", "0", "0">>))>>)),
      Field("password", "String",
            Conf(<<NameValue("env", KeyLit("ENVCONF_NUMBER"))>>)),
      Field("user", "String",
            Conf(<<NameValue("default", StrLit(L3000))>>)),
      Field("port", "usize",
            Conf(<<NameValue("default", StrLit(<<"q">>)),
                   NameValue("env", KeyLit("ENVCONF_ONLYENV"))>>)),
      Field("bare", "usize", Conf(<<OtherMeta>>)),
      Field("plain", "usize", <<>>),
      Field("path", "usize", <<MetaPath>>),
      Field("typo", "usize",
            Conf(<<NameValue("var", KeyLit("ENVCONF_NUMBER"))>>)) }

RECURSIVE Structs(_)
\* the named fields of a struct: distinct identifiers, at most n of them
Structs(n) ==
    IF n = 0 THEN {<<>>}
    ELSE LET shorter == Structs(n - 1)
         IN  shorter \cup
             {Append(s, f) : s \in {t \in shorter : Len(t) = n - 1},
                             f \in FieldUniverse}

Decls ==
    {s \in Structs(MaxFields) :
        /\ s # <<>>
        /\ \A i \in 1..Len(s) : s[i].ty \in Types
        /\ \A i, j \in 1..Len(s) : s[i].ident = s[j].ident => i = j}

(***************************************************************************)
(* State machine: a struct is declared and derived; the program starts in  *)
(* whatever environment it inherits and calls init, changing the           *)
(* environment between calls as test_setting does.  build goes from        *)
(* "source" to "expanded" or "panicked", and from "expanded" to "running". *)
(***************************************************************************)
Init ==
    /\ decl \in Decls
    /\ build = "source"
    /\ catalog = <<>>
    /\ env = [k \in Keys |-> Unset]
    /\ result = NoResult
    /\ trace = <<>>
    /\ changed = FALSE
    /\ shown = <<>>

\* #[derive(Setting)] expands at compile time
Derive ==
    /\ build = "source"
    /\ \E x \in {setting_derive(decl)} :
           /\ build' = IF x.panic THEN "panicked" ELSE "expanded"
           /\ catalog' = x.init
    /\ UNCHANGED <<decl, env, result, trace, changed, shown>>

\* the derived program starts, in whatever environment it inherits
Start(e) ==
    /\ build = "expanded"
    /\ build' = "running"
    /\ env' = e
    /\ UNCHANGED <<decl, catalog, result, trace, changed, shown>>

\* as Call, but an earlier result is kept and returned again
CallCached(e) ==
    /\ build = "running"
    /\ \E x \in {init(catalog, e)} :
           /\ result' = IF result = NoResult THEN x.result ELSE result
           /\ trace' = IF result = NoResult THEN x.trace ELSE trace
    /\ changed' = FALSE
    /\ shown' = <<>>
    /\ UNCHANGED <<decl, build, catalog>>

\* T::init() on the derived struct, in environment e; changed records
\* whether it returned something else than the init before it
Call(e) ==
    /\ build = "running"
    /\ \E x \in {init(catalog, e)} :
           /\ result' = x.result
           /\ trace' = x.trace
           /\ changed' = (result # NoResult /\ x.result # result)
    /\ shown' = <<>>
    /\ UNCHANGED <<decl, build, catalog>>

\* match TestSettings::init() { .. }
InitCall ==
    /\ env' = env
    /\ Call(env)

\* std::env::set_var(k, v); match TestSettings::init() { .. }
SetVarInit(k, v) ==
    /\ env' = [env EXCEPT ![k] = v]
    /\ Call([env EXCEPT ![k] = v])

\* formatting the returned error with {}
Display ==
    /\ result.st = "err"
    /\ shown = <<>>
    /\ shown' = fmt(result.err)
    /\ UNCHANGED <<decl, build, catalog, env, result, trace, changed>>

Next ==
    \/ Derive
    \/ \E e \in [Keys -> EnvValues] : Start(e)
    \/ InitCall
    \/ \E k \in Keys, v \in SetValues : SetVarInit(k, v)
    \/ Display

Spec == Init /\ [][Next]_vars

(***************************************************************************)
(* Properties                                                              *)
(***************************************************************************)
\* init has returned; env is the environment it read
Fresh == result # NoResult

Fields == 1..Len(catalog)

\* init got as far as running the initializer of field i
Reached(i) == i \in 1..Len(trace)

HasEnv(g) == g.strategy \in {"env_and_default", "env_only"}
HasDefault(g) == g.strategy \in {"env_and_default", "default_only"}
Mandatory(g) == g.strategy = "env_only"

\* field i is the field init failed at
FailedAt(i) == result.st = "err" /\ Len(trace) = i

\* the fields whose initializer fails in the present environment
Failing == {i \in Fields : ~InitField(catalog[i], env).ok}

FirstFailing == CHOOSE i \in Failing : \A j \in Failing : i <= j

\* C1: when some field fails to resolve, init returns the error of the
\* first failing field in declaration order and has run no initializer
\* after it; two mandatory fields with both keys unset give MissingEnv for
\* the key of whichever is declared first.
C1_FailFast ==
    Fresh =>
        /\ Failing # {} =>
              /\ result = ErrResult(InitField(catalog[FirstFailing], env).err)
              /\ Len(trace) = FirstFailing
              /\ \A i \in 1..FirstFailing : trace[i].name = catalog[i].name
        /\ Failing = {} => result.st = "ok" /\ Len(trace) = Len(catalog)
        /\ ( /\ Len(catalog) = 2
             /\ Mandatory(catalog[1]) /\ Mandatory(catalog[2])
             /\ env[KeyOf(catalog[1].v)] = Unset
             /\ env[KeyOf(catalog[2].v)] = Unset )
           => result = ErrResult(MissingEnv(KeyOf(catalog[1].v)))

\* two mandatory fields with different keys, both unset, declared with the
\* ENVCONF_NUMBER one first: the error names ENVCONF_NUMBER
C1_Witness ==
    /\ Fresh
    /\ Len(catalog) = 2
    /\ Mandatory(catalog[1]) /\ Mandatory(catalog[2])
    /\ KeyOf(catalog[1].v) = "ENVCONF_NUMBER"
    /\ KeyOf(catalog[2].v) = "ENVCONF_ONLYENV"
    /\ env["ENVCONF_NUMBER"] = Unset /\ env["ENVCONF_ONLYENV"] = Unset
    /\ result = ErrResult(MissingEnv("ENVCONF_NUMBER"))
    /\ Len(trace) = 1

\* C2: a mandatory field whose key is unset, reached because every earlier
\* field resolved, makes init return MissingEnv with that field's key; a
\* field that has a default never makes init return MissingEnv.
C2_MissingEnv ==
    Fresh =>
        \A i \in Fields :
            /\ ( Reached(i) /\ Mandatory(catalog[i])
                 /\ env[KeyOf(catalog[i].v)] = Unset )
               => /\ result = ErrResult(MissingEnv(KeyOf(catalog[i].v)))
                  /\ FailedAt(i)
            /\ ( FailedAt(i) /\ HasDefault(catalog[i]) )
               => result.err.kind # "MissingEnv"

\* a mandatory second field fails on its unset key after the first resolved
C2_Witness ==
    /\ Fresh
    /\ Len(catalog) = 2
    /\ Mandatory(catalog[2])
    /\ env[KeyOf(catalog[2].v)] = Unset
    /\ FailedAt(2)
    /\ result.err = MissingEnv(KeyOf(catalog[2].v))

DefaultUsed(i) ==
    /\ HasDefault(catalog[i])
    /\ HasEnv(catalog[i]) => env[KeyOf(catalog[i].v)] = Unset

\* C4: a field whose default is used and does not parse as the field's
\* type, reached because every earlier field resolved, makes init return
\* DefaultParse(field name, the default's text as handed to the parser).
C4_DefaultParse ==
    Fresh =>
        \A i \in Fields :
            ( /\ Reached(i) /\ DefaultUsed(i)
              /\ ~Parse(catalog[i].ty, LitToString(catalog[i].d)).ok )
            => result = ErrResult(DefaultParse(catalog[i].name,
                                               LitToString(catalog[i].d)))

\* C5: a field whose key is in the environment, whatever its value, takes
\* the arm that parses the variable; only an absent key selects the default
\* or MissingEnv.
C5_SetMeansPresent ==
    Fresh =>
        \A i \in Fields :
            ( Reached(i) /\ HasEnv(catalog[i]) )
            => ( trace[i].arm = "env" <=> env[KeyOf(catalog[i].v)] # Unset )

\* C6: the value a default gives depends only on the default's canonical
\* text, not on the literal's kind: two fields of one type whose defaults
\* have the same canonical text get the same value, and the numeric
\* default 3000 on a String field gives the text "3000".
C6_DefaultNormalized ==
    (Fresh /\ result.st = "ok") =>
        /\ \A i, j \in Fields :
              ( /\ trace[i].arm = "default" /\ trace[j].arm = "default"
                /\ catalog[i].ty = catalog[j].ty
                /\ LitToString(catalog[i].d) = LitToString(catalog[j].d) )
              => result.rec[i] = result.rec[j]
        /\ \A i \in Fields :
              ( /\ trace[i].arm = "default"
                /\ catalog[i].ty = "String"
                /\ catalog[i].d = IntLit(L3000) )
              => result.rec[i] = StringVal(L3000)

\* a String field with the numeric default 3000 and one with the textual
\* default "3000" both resolved from their defaults
C6_Witness ==
    /\ Fresh /\ result.st = "ok"
    /\ Len(catalog) = 2
    /\ trace[1].arm = "default" /\ trace[2].arm = "default"
    /\ catalog[1].ty = "String" /\ catalog[2].ty = "String"
    /\ catalog[1].d = IntLit(L3000)
    /\ catalog[2].d = StrLit(L3000)
    /\ result.rec = <<StringVal(L3000), StringVal(L3000)>>

\* field i has an env key that holds, in environment e, text parsing as
\* the field's type
EnvParsesIn(e, i) ==
    /\ HasEnv(catalog[i])
    /\ e[KeyOf(catalog[i].v)].st = "unicode"
    /\ Parse(catalog[i].ty, e[KeyOf(catalog[i].v)].text).ok

EnvParses(i) == EnvParsesIn(env, i)

\* for an env+default field whose key holds parsable text, the value is the
\* parse of that text and the default is not parsed
EnvWins ==
    Fresh =>
        \A i \in Fields :
            ( /\ Reached(i)
              /\ catalog[i].strategy = "env_and_default"
              /\ EnvParses(i) )
            => /\ ~FailedAt(i)
               /\ trace[i].arm = "env"
               /\ result.st = "ok" =>
                     result.rec[i] = Value(catalog[i].ty,
                         Parse(catalog[i].ty, env[KeyOf(catalog[i].v)].text).val)

\* an init that succeeds after an init that succeeded, with only key k set
\* in between, to text that field i parses: the fields in J keep their
\* values
OthersKeep(k, i, J) ==
    ( /\ result.st = "ok" /\ result'.st = "ok"
      /\ env'[k] # env[k] /\ env'[k] # Unset
      /\ \A o \in Keys \ {k} : env'[o] = env[o]
      /\ catalog[i].strategy = "env_and_default"
      /\ KeyOf(catalog[i].v) = k
      /\ EnvParsesIn(env', i) )
    => \A j \in J : result'.rec[j] = result.rec[j]

\* C7 as stated: setting the key of an env+default field to parsable text
\* makes that field the parse of the text, the default playing no part,
\* and changes the value of no other field.
C7_Original ==
    /\ []EnvWins
    /\ [][\A k \in Keys : \A i \in Fields :
             OthersKeep(k, i, Fields \ {i})]_vars

\* C7 amended: ... and changes the value of no other field, except the
\* fields that read the same key.
C7_EnvOverridesDefault ==
    /\ []EnvWins
    /\ [][\A k \in Keys : \A i \in Fields :
             OthersKeep(k, i,
                 {j \in Fields \ {i} :
                     HasEnv(catalog[j]) => KeyOf(catalog[j].v) # k})]_vars

\* an env+default field whose default does not parse took its value from
\* the variable, next to a field without that key
C7_Witness ==
    /\ Fresh /\ result.st = "ok"
    /\ Len(catalog) = 2
    /\ catalog[1].strategy = "env_and_default"
    /\ ~Parse(catalog[1].ty, LitToString(catalog[1].d)).ok
    /\ env[KeyOf(catalog[1].v)] = Unicode(<<"5">>)
    /\ result.rec[1] = UsizeVal(5)
    /\ ~HasEnv(catalog[2])

Declares(f, n) ==
    /\ f.attrs # <<>>
    /\ \E a \in 1..Len(Head(f.attrs).nested) :
          /\ Head(f.attrs).nested[a].kind = "NameValue"
          /\ Head(f.attrs).nested[a].name = n

Unconfigured(f) == ~Declares(f, "env") /\ ~Declares(f, "default")

\* C9: a struct with a field that declares neither env nor default does
\* not expand, so init never runs on one; until the expansion is done no
\* environment variable has been looked up.
C9_NeitherRejected ==
    /\ build \in {"expanded", "running"} =>
          /\ \A i \in 1..Len(decl) : ~Unconfigured(decl[i])
          /\ Len(catalog) = Len(decl)
    /\ (\E i \in 1..Len(decl) : Unconfigured(decl[i])) =>
          /\ build \in {"source", "panicked"}
          /\ result = NoResult
    /\ build # "running" => (trace = <<>> /\ result = NoResult)

\* the expansion of a struct whose second field has a conf attribute with
\* neither argument panicked, the first field being well-formed
C9_Witness ==
    /\ build = "panicked"
    /\ Len(decl) = 2
    /\ ~Unconfigured(decl[1])
    /\ decl[2].attrs # <<>>
    /\ Head(decl[2].attrs).meta = "List"
    /\ Unconfigured(decl[2])
    /\ result = NoResult

\* the message the documentation gives for an error
Documented(e) ==
    CASE e.kind = "MissingEnv" ->
            <<"Environment variable (", e.name, ") is missing">>
      [] e.kind = "EnvParse" ->
            <<"Failed to parse environment variable (", e.name, ") value (">>
                \o e.value \o <<")">>
      [] e.kind = "DefaultParse" ->
            <<"Failed to parse field (", e.name, ") default value (">>
                \o e.value \o <<")">>

\* C10: the message of an error is exactly the documented text with the
\* carried values inserted unchanged.
C10_Message ==
    shown # <<>> => shown = Documented(result.err)

====
